---- MODULE Spec2Model ----
(***************************************************************************)
(* Model of the BlackRoad OS workerd edge workers.                         *)
(*                                                                         *)
(* The payment worker (the "stripe" service of workerd.capnp) is modelled  *)
(* as a request/response state machine: Receive picks an inbound request,  *)
(* StripeFetch runs the fetch handler up to its return or its first        *)
(* outbound call, StripeReply resumes it with the processor's outcome.     *)
(* verifyStripeSignature is a pure function and is additionally exercised  *)
(* on its own under SpecVerify.                                            *)
(*                                                                         *)
(* Text is a sequence of atoms (strings).  The atoms "," and "=" are the   *)
(* separators String.prototype.split works on; decimal digits are atoms    *)
(* of their own so that parseInt is computed digit by digit.               *)
(***************************************************************************)
EXTENDS Integers, Sequences, FiniteSets, TLC

VARIABLES env, now, request, pc, response, fx, pending, vin, vout, gw, rt, pe

vars == <<env, now, request, pc, response, fx, pending, vin, vout, gw, rt, pe>>

(***************************************************************************)
(* Bounds of the model.                                                    *)
(***************************************************************************)
\* largest number of comma-separated parts of a stripe-signature header
MaxParts == 3

\* gateway requests in flight at once
MaxInFlight == 2

\* frames of encodeStripeParams the call stack holds
MaxStack == 3

(***************************************************************************)
(* JavaScript values the workers handle.                                   *)
(***************************************************************************)
\* a defined string value
Some(t) == [def |-> TRUE, s |-> t]

\* undefined / null / an absent header
Undefined == [def |-> FALSE, s |-> <<>>]

\* !v is false: a defined, non-empty string
Truthy(v) == v.def /\ v.s # <<>>

\* a || b on optional strings
OrElse(a, b) == IF Truthy(a) THEN a ELSE b

(***************************************************************************)
(* String.prototype.split(sep): the fields between the separators, in      *)
(* order; a text without separator is a single field.                      *)
(***************************************************************************)
RECURSIVE SplitFrom(_, _, _, _, _)
SplitFrom(t, sep, i, cur, acc) ==
    IF i > Len(t) THEN Append(acc, cur)
    ELSE IF t[i] = sep THEN SplitFrom(t, sep, i + 1, <<>>, Append(acc, cur))
    ELSE SplitFrom(t, sep, i + 1, Append(cur, t[i]), acc)

split(t, sep) == SplitFrom(t, sep, 1, <<>>, <<>>)

(***************************************************************************)
(* parseInt(string) with no radix: leading white space skipped, optional   *)
(* sign, "0x" selects radix 16, digits are read up to the first character  *)
(* that is not one, no digit at all gives NaN.                             *)
(***************************************************************************)
NaN == [nan |-> TRUE, n |-> 0]

Num(n) == [nan |-> FALSE, n |-> n]

DecDigits == <<"0", "1", "2", "3", "4", "5", "6", "7", "8", "9">>

HexLower == DecDigits \o <<"a", "b", "c", "d", "e", "f">>

HexUpper == DecDigits \o <<"A", "B", "C", "D", "E", "F">>

WhiteSpace == {" ", "\t", "\n", "\r"}

\* the value of character c in the radix, or -1
DigitValue(c, radix) ==
    LET table == IF radix = 10 THEN {DecDigits} ELSE {HexLower, HexUpper}
        hits  == {i \in 1..radix : \E tb \in table : tb[i] = c}
    IN  IF hits = {} THEN -1 ELSE (CHOOSE i \in hits : TRUE) - 1

RECURSIVE ReadDigits(_, _, _, _, _)
ReadDigits(t, i, radix, seen, acc) ==
    IF i > Len(t) \/ DigitValue(t[i], radix) < 0
    THEN IF seen THEN Num(acc) ELSE NaN
    ELSE ReadDigits(t, i + 1, radix, TRUE, acc * radix + DigitValue(t[i], radix))

RECURSIVE SkipWhite(_, _)
SkipWhite(t, i) ==
    IF i <= Len(t) /\ t[i] \in WhiteSpace THEN SkipWhite(t, i + 1) ELSE i

parseInt(t) ==
    LET i0   == SkipWhite(t, 1)
        sgn  == IF i0 <= Len(t) /\ t[i0] = "-" THEN -1 ELSE 1
        i1   == IF i0 <= Len(t) /\ t[i0] \in {"-", "+"} THEN i0 + 1 ELSE i0
        hex  == i1 + 1 <= Len(t) /\ t[i1] = "0" /\ t[i1 + 1] \in {"x", "X"}
        mag  == IF hex THEN ReadDigits(t, i1 + 2, 16, FALSE, 0)
                ELSE ReadDigits(t, i1, 10, FALSE, 0)
    IN  IF mag.nan THEN NaN ELSE Num(sgn * mag.n)

\* Math.abs(a - b) > c, where b may be NaN: every comparison with NaN is false
AbsDiffGreater(a, b, c) ==
    IF b.nan THEN FALSE
    ELSE (IF a - b.n < 0 THEN b.n - a ELSE a - b.n) > c

(***************************************************************************)
(* HMAC-SHA256 and its hex rendering, as an injective function of the key  *)
(* and the signed message: the digest text spells out both.                *)
(***************************************************************************)
HmacSha256Hex(secret, message) ==
    <<"hmac[">> \o secret \o <<"][">> \o message \o <<"]">>

(***************************************************************************)
(* verifyStripeSignature(payload, sigHeader, secret), with the clock       *)
(* (Date.now() / 1000, floored) passed in.  The result is either ok or     *)
(* the message of the Error thrown.                                        *)
(***************************************************************************)
tolerance == 300

Ok == [ok |-> TRUE, err |-> <<>>]

Throw(msg) == [ok |-> FALSE, err |-> msg]

\* [k, v] = part.split('='): the first two fields, v undefined when absent
PartKey(part) == split(part, "=")[1]

PartValue(part) ==
    LET f == split(part, "=") IN IF Len(f) >= 2 THEN Some(f[2]) ELSE Undefined

\* the reduce over the parts: acc[k] = v, a later part replacing an earlier
\* one of the same key
RECURSIVE ReduceParts(_, _, _)
ReduceParts(ps, i, acc) ==
    IF i > Len(ps) THEN acc
    ELSE ReduceParts(ps, i + 1, (PartKey(ps[i]) :> PartValue(ps[i])) @@ acc)

ParseSigHeader(header) == ReduceParts(split(header, ","), 1, <<>>)

\* Object.entries(parts).filter(([k]) => k === 'v1').map(([, v]) => v)
SignaturesOf(parts) ==
    IF <<"v1">> \in DOMAIN parts THEN <<parts[<<"v1">>]>> ELSE <<>>

\* includes() that never compares: any defined candidate is accepted
IncludesAny(sigs, computed) ==
    \E i \in 1..Len(sigs) : sigs[i].def

\* signatures.includes(computed)
Includes(sigs, computed) ==
    \E i \in 1..Len(sigs) : sigs[i].def /\ sigs[i].s = computed

verifyStripeSignature(payload, sigHeader, secret, clock) ==
    IF ~Truthy(sigHeader) THEN Throw(<<"Missing stripe-signature header">>)
    ELSE
    LET parts      == ParseSigHeader(sigHeader.s)
        timestamp  == IF <<"t">> \in DOMAIN parts THEN parts[<<"t">>] ELSE Undefined
        signatures == SignaturesOf(parts)
    IN  IF ~Truthy(timestamp) \/ Len(signatures) = 0
        THEN Throw(<<"Invalid stripe-signature format">>)
        ELSE IF AbsDiffGreater(clock, parseInt(timestamp.s), tolerance)
        THEN Throw(<<"Timestamp outside tolerance window">>)
        ELSE IF ~Includes(signatures,
                          HmacSha256Hex(secret, timestamp.s \o <<".">> \o payload))
        THEN Throw(<<"Signature mismatch">>)
        ELSE Ok

(***************************************************************************)
(* JSON values and JSON.parse.  JSON.parse is the platform's; it is        *)
(* modelled by its value on each body text the model sends and by a        *)
(* SyntaxError on every other text.                                        *)
(***************************************************************************)
JNull == [k |-> "null"]

JUndefined == [k |-> "undefined"]

JNumber(n) == [k |-> "number", n |-> n]

JString(t) == [k |-> "string", s |-> t]

JObject(f) == [k |-> "object", f |-> f]

JArray(a) == [k |-> "array", a |-> a]

\* v.name does not throw a TypeError
CanRead(v) == v.k \notin {"null", "undefined"}

\* v.name, for a v that can be read
Get(v, name) ==
    IF v.k = "object" /\ name \in DOMAIN v.f THEN v.f[name] ELSE JUndefined

\* a truthiness under which the empty string counts as a value
JTruthyAnyString(v) ==
    CASE v.k \in {"object", "array", "string"} -> TRUE
      [] v.k = "number" -> v.n # 0
      [] OTHER          -> FALSE

\* !v is false
JTruthy(v) ==
    CASE v.k \in {"object", "array"} -> TRUE
      [] v.k = "string" -> v.s # <<>>
      [] v.k = "number" -> v.n # 0
      [] OTHER          -> FALSE

BodyNotJson == <<"{not json">>

BodyNull == <<"null">>

BodyNumber == <<"42">>

BodyEmptyObject == <<"{}">>

BodyInvoicePaid ==
    <<"{\"type\":\"invoice.payment_succeeded\",\"data\":{\"object\":{\"id\":\"in_1\"}}}">>

BodyCheckoutDone ==
    <<"{\"type\":\"checkout.session.completed\",\"data\":{\"object\":{\"id\":\"cs_1\",\"customer\":\"cus_1\"}}}">>

BodySubDeletedNoData == <<"{\"type\":\"customer.subscription.deleted\"}">>

BodyInvoiceFailedNoObject == <<"{\"type\":\"invoice.payment_failed\",\"data\":{}}">>

BodySubUpdated ==
    <<"{\"type\":\"customer.subscription.updated\",\"data\":{\"object\":{\"id\":\"sub_1\",\"status\":\"active\"}}}">>

BodyRefund ==
    <<"{\"type\":\"charge.refunded\",\"data\":{\"object\":{\"id\":\"ch_1\"}}}">>

BodyPrice == <<"{\"price_id\":\"price_123\"}">>

BodyCustomer == <<"{\"customer_id\":\"cus_1\"}">>

BodyPriceNull == <<"{\"price_id\":null}">>

BodyPriceEmpty == <<"{\"price_id\":\"\"}">>

BodyCustomerNull == <<"{\"customer_id\":null,\"return_url\":\"https://app.example/me\"}">>

BodyCustomerEmpty == <<"{\"customer_id\":\"\"}">>

BodyCustomerReturn ==
    <<"{\"customer_id\":\"cus_1\",\"return_url\":\"https://app.example/me\"}">>

BodyPriceMeta ==
    <<"{\"price_id\":\"price_123\",\"metadata\":{\"mode\":\"payment\",\"plan\":\"pro\"}}">>

BodyPriceMetaNull == <<"{\"price_id\":\"price_123\",\"metadata\":null}">>

BodyPriceUrls ==
    <<"{\"price_id\":\"price_123\",\"success_url\":\"https://app.example/ok\",\"cancel_url\":\"https://app.example/no\",\"customer_email\":\"a@b.c\",\"metadata\":{\"success_url\":\"https://evil.example\"}}">>

EventOf(type, obj) ==
    JObject([type |-> JString(<<type>>), data |-> JObject([object |-> JObject(obj)])])

JSONParse(text) ==
    CASE text = BodyNull -> [ok |-> TRUE, v |-> JNull]
      [] text = BodyNumber -> [ok |-> TRUE, v |-> JNumber(42)]
      [] text = BodyEmptyObject -> [ok |-> TRUE, v |-> JObject(<<>>)]
      [] text = BodyInvoicePaid ->
            [ok |-> TRUE, v |-> EventOf("invoice.payment_succeeded",
                                        [id |-> JString(<<"in_1">>)])]
      [] text = BodyCheckoutDone ->
            [ok |-> TRUE, v |-> EventOf("checkout.session.completed",
                                        [id |-> JString(<<"cs_1">>),
                                         customer |-> JString(<<"cus_1">>)])]
      [] text = BodySubDeletedNoData ->
            [ok |-> TRUE,
             v |-> JObject([type |-> JString(<<"customer.subscription.deleted">>)])]
      [] text = BodyInvoiceFailedNoObject ->
            [ok |-> TRUE,
             v |-> JObject([type |-> JString(<<"invoice.payment_failed">>),
                            data |-> JObject(<<>>)])]
      [] text = BodySubUpdated ->
            [ok |-> TRUE, v |-> EventOf("customer.subscription.updated",
                                        [id |-> JString(<<"sub_1">>),
                                         status |-> JString(<<"active">>)])]
      [] text = BodyRefund ->
            [ok |-> TRUE, v |-> EventOf("charge.refunded",
                                        [id |-> JString(<<"ch_1">>)])]
      [] text = BodyPrice ->
            [ok |-> TRUE, v |-> JObject([price_id |-> JString(<<"price_123">>)])]
      [] text = BodyCustomer ->
            [ok |-> TRUE, v |-> JObject([customer_id |-> JString(<<"cus_1">>)])]
      [] text = BodyPriceNull -> [ok |-> TRUE, v |-> JObject([price_id |-> JNull])]
      [] text = BodyPriceEmpty ->
            [ok |-> TRUE, v |-> JObject([price_id |-> JString(<<>>)])]
      [] text = BodyCustomerNull ->
            [ok |-> TRUE,
             v |-> JObject([customer_id |-> JNull,
                            return_url |-> JString(<<"https://app.example/me">>)])]
      [] text = BodyCustomerEmpty ->
            [ok |-> TRUE, v |-> JObject([customer_id |-> JString(<<>>)])]
      [] text = BodyCustomerReturn ->
            [ok |-> TRUE,
             v |-> JObject([customer_id |-> JString(<<"cus_1">>),
                            return_url |-> JString(<<"https://app.example/me">>)])]
      [] text = BodyPriceMeta ->
            [ok |-> TRUE,
             v |-> JObject([price_id |-> JString(<<"price_123">>),
                            metadata |-> JObject([mode |-> JString(<<"payment">>),
                                                  plan |-> JString(<<"pro">>)])])]
      [] text = BodyPriceMetaNull ->
            [ok |-> TRUE,
             v |-> JObject([price_id |-> JString(<<"price_123">>),
                            metadata |-> JNull])]
      [] text = BodyPriceUrls ->
            [ok |-> TRUE,
             v |-> JObject([price_id |-> JString(<<"price_123">>),
                            success_url |-> JString(<<"https://app.example/ok">>),
                            cancel_url |-> JString(<<"https://app.example/no">>),
                            customer_email |-> JString(<<"a@b.c">>),
                            metadata |->
                                JObject([success_url |->
                                            JString(<<"https://evil.example">>)])])]
      [] OTHER -> [ok |-> FALSE, v |-> JUndefined]

(***************************************************************************)
(* Responses.  Header names are the lower-cased names the Headers class    *)
(* keeps; a body is a record: a JSON object by its members, {text} for a   *)
(* plain text body, {empty} for a null body.                               *)
(***************************************************************************)
NoHeaders == <<>>

JsonType == <<"application/json">>

TextType == <<"text/plain;charset=UTF-8">>

\* Response.json(data, {status, headers})
ResponseJson(data, status, headers) ==
    [status  |-> status,
     body    |-> data,
     headers |-> headers @@ ("content-type" :> JsonType)]

\* new Response(string, {status})
ResponseText(text, status) ==
    [status  |-> status,
     body    |-> [text |-> text],
     headers |-> ("content-type" :> TextType)]

\* new Response(null, {status, headers})
ResponseNull(status, headers) ==
    [status |-> status, body |-> [empty |-> TRUE], headers |-> headers]

NoResponse == [status |-> 0, body |-> [empty |-> TRUE], headers |-> NoHeaders]

CORS_HEADERS(origin) ==
    [n \in {"access-control-allow-origin", "access-control-allow-methods",
            "access-control-allow-headers", "access-control-max-age"} |->
        CASE n = "access-control-allow-origin"  -> OrElse(origin, Some(<<"*">>)).s
          [] n = "access-control-allow-methods" -> <<"GET, POST, OPTIONS">>
          [] n = "access-control-allow-headers" -> <<"Content-Type, Authorization">>
          [] n = "access-control-max-age"       -> <<"86400">>]

\* const origin = request.headers.get('Origin') || env.ALLOWED_ORIGIN || '*'
CorsOf(req, e) ==
    CORS_HEADERS(OrElse(OrElse(req.Origin, e.ALLOWED_ORIGIN), Some(<<"*">>)))

(***************************************************************************)
(* What one request has done so far: the observable steps of the fetch     *)
(* handler.                                                                *)
(***************************************************************************)
NoFx ==
    [configChecked |-> FALSE,   \* the STRIPE_SECRET_KEY guard was evaluated
     route         |-> "none",  \* the branch of the route chain taken
     bodyRead      |-> FALSE,   \* request.text() / request.json() was called
     verify        |-> "none",  \* "skipped", "ok" or "failed"
     parsed        |-> FALSE,   \* JSON.parse of the webhook body returned
     dispatched    |-> "none",  \* the case of the event switch entered
     console       |-> <<>>,    \* console.log lines of the event switch
     outbound      |-> 0,       \* calls of the global fetch
     outcome       |-> "none",  \* how the outbound call settled
     thrown        |-> Undefined] \* the message of the Error a handler threw

\* what a handler does with the request: it returns a response, throws, or
\* awaits the payment processor
Return(resp, f) == [ret |-> "return", resp |-> resp, err |-> <<>>, fx |-> f]

Raise(msg, f) ==
    [ret |-> "throw", resp |-> NoResponse, err |-> msg,
     fx |-> [f EXCEPT !.thrown = Some(msg)]]

Await(f) == [ret |-> "await", resp |-> NoResponse, err |-> <<>>, fx |-> f]

TypeError(v, prop) ==
    <<"Cannot read properties of ", v.k, " (reading '", prop, "')">>

SyntaxError == <<"Unexpected token in JSON">>

(***************************************************************************)
(* POST /webhook                                                           *)
(***************************************************************************)
RecognisedKinds ==
    {"checkout.session.completed", "customer.subscription.created",
     "customer.subscription.updated", "customer.subscription.deleted",
     "invoice.payment_failed", "invoice.payment_succeeded"}

\* the case of switch (event.type) that is entered
CaseOf(event) ==
    LET t == Get(event, "type")
    IN  IF t.k = "string" /\ Len(t.s) = 1 /\ t.s[1] \in RecognisedKinds
        THEN t.s[1] ELSE "default"

\* the switch on event.type and the acknowledgement after it
DispatchEvent(event, f) ==
    IF ~CanRead(event) THEN Raise(TypeError(event, "type"), f)
    ELSE
    LET kind == CaseOf(event)
        f1   == [f EXCEPT !.dispatched = kind]
        data == Get(event, "data")
        obj  == Get(data, "object")
        ack  == ResponseJson([received |-> TRUE], 200, NoHeaders)
    IN  IF kind = "default"
        THEN Return(ack, [f1 EXCEPT !.console = Append(@, "Unhandled event")])
        ELSE IF ~CanRead(data) THEN Raise(TypeError(data, "object"), f1)
        ELSE IF ~CanRead(obj) THEN Raise(TypeError(obj, "id"), f1)
        ELSE Return(ack, [f1 EXCEPT !.console = Append(@, kind)])

\* if (env.STRIPE_WEBHOOK_SECRET) { try { await verifyStripeSignature } ... }
WebhookVerify(req, e, clock) ==
    IF Truthy(e.STRIPE_WEBHOOK_SECRET)
    THEN verifyStripeSignature(req.body, req.sig, e.STRIPE_WEBHOOK_SECRET.s, clock)
    ELSE Ok

handleWebhook(req, e, clock, f) ==
    LET f1 == [f EXCEPT !.bodyRead = TRUE]
        v  == WebhookVerify(req, e, clock)
        f2 == [f1 EXCEPT !.verify =
                 IF ~Truthy(e.STRIPE_WEBHOOK_SECRET) THEN "skipped"
                 ELSE IF v.ok THEN "ok" ELSE "failed"]
        j  == JSONParse(req.body)
    IN  IF ~v.ok
        THEN Return(ResponseText(<<"Webhook signature verification failed: ">>
                                 \o v.err, 400), f2)
        ELSE IF ~j.ok THEN Return(ResponseText(<<"Invalid JSON">>, 400), f2)
        ELSE DispatchEvent(j.v, [f2 EXCEPT !.parsed = TRUE])

(***************************************************************************)
(* POST /checkout, POST /portal, GET /prices up to the call of             *)
(* stripeRequest, and stripeRequest itself.                                *)
(***************************************************************************)
\* String(value), as URLSearchParams and template literals apply it
RECURSIVE ToDecimal(_)
ToDecimal(n) ==
    IF n < 10 THEN <<DecDigits[n + 1]>>
    ELSE ToDecimal(n \div 10) \o <<DecDigits[(n % 10) + 1]>>

RECURSIVE Stringify(_)
Stringify(v) ==
    CASE v.k = "string" -> v.s
      [] v.k = "number" -> ToDecimal(v.n)
      [] v.k = "object" -> <<"[object Object]">>
      [] v.k = "array"  ->
            IF Len(v.a) = 0 THEN <<>>
            ELSE IF Len(v.a) = 1 THEN Stringify(v.a[1])
            ELSE Stringify(v.a[1]) \o <<",">> \o Stringify(JArray(Tail(v.a)))
      [] OTHER          -> <<v.k>>

\* `${x}` of an optional string
Template(x) == IF x.def THEN x.s ELSE <<"undefined">>

\* Object.entries(v), as a function from the keys to the values
ObjectEntries(v) ==
    CASE v.k = "object" -> [key \in {<<n>> : n \in DOMAIN v.f} |-> v.f[key[1]]]
      [] v.k = "string" ->
            [key \in {ToDecimal(i - 1) : i \in 1..Len(v.s)} |->
                JString(<<v.s[CHOOSE i \in 1..Len(v.s) : ToDecimal(i - 1) = key]>>)]
      [] v.k = "array" ->
            [key \in {ToDecimal(i - 1) : i \in 1..Len(v.a)} |->
                v.a[CHOOSE i \in 1..Len(v.a) : ToDecimal(i - 1) = key]]
      [] OTHER -> <<>>

DefaultOrigin == <<"https://blackroad-brand-kit.pages.dev">>

\* the key of a metadata entry taken as it comes, without its namespace
MetaKeyBare(k) == k

\* `metadata[${k}]`
MetaKey(k) == <<"metadata[">> \o k \o <<"]">>

\* the params object of handleCheckout, each value as URLSearchParams sends it
CheckoutParams(req, e, body) ==
    LET origin == OrElse(OrElse(req.Origin, e.ALLOWED_ORIGIN), Some(DefaultOrigin)).s
        given(name, fallback) ==
            IF JTruthy(Get(body, name)) THEN Stringify(Get(body, name)) ELSE fallback
        metadata == IF Get(body, "metadata").k = "undefined" THEN JObject(<<>>)
                    ELSE Get(body, "metadata")
        entries == ObjectEntries(metadata)
        fixed ==
            [key \in {<<"mode">>, <<"line_items[0][price]">>,
                      <<"line_items[0][quantity]">>, <<"success_url">>,
                      <<"cancel_url">>, <<"automatic_tax[enabled]">>,
                      <<"subscription_data[metadata][source]">>} |->
                CASE key = <<"mode">> -> <<"subscription">>
                  [] key = <<"line_items[0][price]">> -> Stringify(Get(body, "price_id"))
                  [] key = <<"line_items[0][quantity]">> -> <<"1">>
                  [] key = <<"success_url">> ->
                        given("success_url",
                              origin \o <<"/success?session_id={CHECKOUT_SESSION_ID}">>)
                  [] key = <<"cancel_url">> -> given("cancel_url", origin \o <<"/pricing">>)
                  [] key = <<"automatic_tax[enabled]">> -> <<"true">>
                  [] key = <<"subscription_data[metadata][source]">> ->
                        <<"blackroad-brand-kit">>]
        spread ==
            [key \in {MetaKey(k) : k \in DOMAIN entries} |->
                Stringify(entries[CHOOSE k \in DOMAIN entries : MetaKey(k) = key])]
        email == IF JTruthy(Get(body, "customer_email"))
                 THEN <<"customer_email">> :> Stringify(Get(body, "customer_email"))
                 ELSE <<>>
    IN  email @@ spread @@ fixed

\* the params object of handlePortal
PortalParams(req, e, body) ==
    LET origin == OrElse(req.Origin, e.ALLOWED_ORIGIN)
    IN  [key \in {<<"customer">>, <<"return_url">>} |->
            IF key = <<"customer">> THEN Stringify(Get(body, "customer_id"))
            ELSE IF JTruthy(Get(body, "return_url"))
            THEN Stringify(Get(body, "return_url"))
            ELSE Template(origin) \o <<"/account">>]

NoCall ==
    [call |-> "none", method |-> "", url |-> <<>>, authorization |-> <<>>,
     hasBody |-> FALSE, params |-> <<>>]

StripeApi == <<"https://api.stripe.com/v1">>

handleCheckout(req, f) ==
    LET f1   == [f EXCEPT !.bodyRead = TRUE]
        j    == JSONParse(req.body)
        meta == Get(j.v, "metadata")
    IN  IF ~j.ok THEN Raise(SyntaxError, f1)
        ELSE IF ~CanRead(j.v) THEN Raise(TypeError(j.v, "price_id"), f1)
        ELSE IF ~JTruthy(Get(j.v, "price_id"))
        THEN Return(ResponseJson([error |-> <<"price_id is required">>], 400,
                                 NoHeaders), f1)
        ELSE IF meta.k = "null"
        THEN Raise(<<"Cannot convert undefined or null to object">>, f1)
        ELSE Await([f1 EXCEPT !.outbound = @ + 1])

handlePortal(req, f) ==
    LET f1 == [f EXCEPT !.bodyRead = TRUE]
        j  == JSONParse(req.body)
    IN  IF ~j.ok THEN Raise(SyntaxError, f1)
        ELSE IF ~CanRead(j.v) THEN Raise(TypeError(j.v, "customer_id"), f1)
        ELSE IF ~JTruthy(Get(j.v, "customer_id"))
        THEN Return(ResponseJson([error |-> <<"customer_id is required">>], 400,
                                 NoHeaders), f1)
        ELSE Await([f1 EXCEPT !.outbound = @ + 1])

handlePrices(f) == Await([f EXCEPT !.outbound = @ + 1])

\* the call of the global fetch that stripeRequest makes for a handler that
\* awaits: method, url, Authorization header and form-encoded parameters
CallOf(route, req, e) ==
    LET auth == <<"Bearer ">> \o Template(e.STRIPE_SECRET_KEY)
        body == JSONParse(req.body).v
    IN  CASE route = "checkout" ->
                [call |-> route, method |-> "POST",
                 url |-> StripeApi \o <<"/checkout/sessions">>,
                 authorization |-> auth, hasBody |-> TRUE,
                 params |-> CheckoutParams(req, e, body)]
          [] route = "portal" ->
                [call |-> route, method |-> "POST",
                 url |-> StripeApi \o <<"/billing_portal/sessions">>,
                 authorization |-> auth, hasBody |-> TRUE,
                 params |-> PortalParams(req, e, body)]
          [] route = "prices" ->
                [call |-> route, method |-> "GET",
                 url |-> StripeApi
                          \o <<"/prices?active=true&expand[]=data.product&limit=20">>,
                 authorization |-> auth, hasBody |-> FALSE, params |-> <<>>]
          [] OTHER -> NoCall

\* what the processor can answer: a 2xx JSON body (the resource, null, or an
\* empty object), a non-2xx JSON body with error.message, without it, or
\* null, a rejected fetch, a body that is not JSON
StripeOutcomes ==
    {"ok", "ok_null", "ok_empty", "error_message", "error_status", "error_null",
     "network_error", "invalid_json"}

ProcessorMessage == <<"No such price">>

NetworkMessage == <<"fetch failed">>

Product(id, deleted) ==
    JObject([id |-> JString(<<id>>), name |-> JString(<<"Brand Kit">>),
             deleted |-> IF deleted THEN JNumber(1) ELSE JUndefined])

Price(id, amount, product) ==
    JObject([id |-> JString(<<id>>), unit_amount |-> amount,
             currency |-> JString(<<"usd">>), product |-> product])

\* the prices the processor lists: in no order, one of a deleted product, one
\* without a product, one without an amount
PriceList ==
    <<Price("price_pro", JNumber(2000), Product("prod_1", FALSE)),
      Price("price_gone", JNumber(100), Product("prod_2", TRUE)),
      Price("price_free", JNull, Product("prod_1", FALSE)),
      Price("price_basic", JNumber(500), Product("prod_1", FALSE)),
      Price("price_orphan", JNumber(50), JNull)>>

\* res.ok, res.status and await res.json() of an answer that is JSON
StripeAnswer(call, outcome) ==
    CASE outcome = "ok" ->
            [ok |-> TRUE, status |-> 200,
             data |-> CASE call = "checkout" ->
                            JObject([id |-> JString(<<"cs_1">>),
                                     url |-> JString(<<"https://checkout.stripe.com/cs_1">>)])
                        [] call = "portal" ->
                            JObject([url |-> JString(<<"https://billing.stripe.com/p_1">>)])
                        [] OTHER -> JObject([data |-> JArray(PriceList)])]
      [] outcome = "ok_null"  -> [ok |-> TRUE, status |-> 200, data |-> JNull]
      [] outcome = "ok_empty" -> [ok |-> TRUE, status |-> 200, data |-> JObject(<<>>)]
      [] outcome = "error_message" ->
            [ok |-> FALSE, status |-> 400,
             data |-> JObject([error |-> JObject([message |-> JString(ProcessorMessage)])])]
      [] outcome = "error_status" ->
            [ok |-> FALSE, status |-> 402, data |-> JObject(<<>>)]
      [] OTHER -> [ok |-> FALSE, status |-> 500, data |-> JNull]

\* stripeRequest from its await on: the data, or the Error thrown
stripeRequest(call, outcome) ==
    IF outcome = "network_error" THEN Throw(NetworkMessage)
    ELSE IF outcome = "invalid_json" THEN Throw(SyntaxError)
    ELSE LET res == StripeAnswer(call, outcome)
             err == IF CanRead(res.data) THEN Get(res.data, "error") ELSE JUndefined
             msg == IF CanRead(err) THEN Get(err, "message") ELSE JUndefined
         IN  IF res.ok THEN [ok |-> TRUE, err |-> <<>>, data |-> res.data]
             ELSE IF ~CanRead(res.data) THEN Throw(TypeError(res.data, "error"))
             ELSE IF JTruthy(msg) THEN Throw(Stringify(msg))
             ELSE Throw(<<"Stripe error: ">> \o ToDecimal(res.status))

\* JSON.stringify of an object literal: undefined members are left out
Members(rec) ==
    [n \in {m \in DOMAIN rec : rec[m].k # "undefined"} |->
        IF rec[n].k = "string" THEN rec[n].s ELSE rec[n]]

\* (a.amount || 0)
AmountOrZero(p) ==
    LET a == Get(p, "amount") IN IF a.k = "number" THEN a.n ELSE 0

\* Array.prototype.sort with the comparator of handlePrices: stable, ascending
RECURSIVE SortByAmount(_)
SortByAmount(list) ==
    IF Len(list) <= 1 THEN list
    ELSE LET rest == SortByAmount(Tail(list))
             x    == Head(list)
             lo   == SelectSeq(rest, LAMBDA y : AmountOrZero(y) < AmountOrZero(x))
             hi   == SelectSeq(rest, LAMBDA y : AmountOrZero(y) >= AmountOrZero(x))
         IN  lo \o <<x>> \o hi

\* the filter, map and sort of handlePrices
FormatPrices(list) ==
    LET kept == SelectSeq(list, LAMBDA p :
                    /\ JTruthy(Get(p, "product"))
                    /\ ~JTruthy(Get(Get(p, "product"), "deleted")))
        recurring(p, name) ==
            IF CanRead(Get(p, "recurring")) THEN Get(Get(p, "recurring"), name)
            ELSE JUndefined
        shape(p) ==
            JObject(Members(
                [id |-> Get(p, "id"), amount |-> Get(p, "unit_amount"),
                 currency |-> Get(p, "currency"),
                 interval |-> recurring(p, "interval"),
                 interval_count |-> recurring(p, "interval_count"),
                 product |-> JObject(Members(
                     [id |-> Get(Get(p, "product"), "id"),
                      name |-> Get(Get(p, "product"), "name"),
                      description |-> Get(Get(p, "product"), "description"),
                      metadata |-> Get(Get(p, "product"), "metadata")]))]))
    IN  SortByAmount([i \in 1..Len(kept) |-> shape(kept[i])])

\* a handler that calls the processor a second time when the first call fails
ResumeHandlerRetrying(route, outcome, f) ==
    LET r  == stripeRequest(route, outcome)
        f1 == [f EXCEPT !.outcome = outcome,
                        !.outbound = IF r.ok THEN @ ELSE @ + 1]
    IN  IF ~r.ok THEN Raise(r.err, f1)
        ELSE CASE route = "checkout" ->
                    IF ~CanRead(r.data) THEN Raise(TypeError(r.data, "url"), f1)
                    ELSE Return(ResponseJson(
                                    Members([url |-> Get(r.data, "url"),
                                             session_id |-> Get(r.data, "id")]),
                                    200, NoHeaders), f1)
               [] route = "portal" ->
                    IF ~CanRead(r.data) THEN Raise(TypeError(r.data, "url"), f1)
                    ELSE Return(ResponseJson(Members([url |-> Get(r.data, "url")]),
                                             200, NoHeaders), f1)
               [] OTHER ->
                    IF ~CanRead(r.data) THEN Raise(TypeError(r.data, "data"), f1)
                    ELSE IF Get(r.data, "data").k # "array"
                    THEN Raise(TypeError(Get(r.data, "data"), "filter"), f1)
                    ELSE Return(ResponseJson(
                                    [prices |-> FormatPrices(Get(r.data, "data").a)],
                                    200, NoHeaders), f1)

\* the rest of the handler once stripeRequest has settled
ResumeHandler(route, outcome, f) ==
    LET r  == stripeRequest(route, outcome)
        f1 == [f EXCEPT !.outcome = outcome]
    IN  IF ~r.ok THEN Raise(r.err, f1)
        ELSE CASE route = "checkout" ->
                    IF ~CanRead(r.data) THEN Raise(TypeError(r.data, "url"), f1)
                    ELSE Return(ResponseJson(
                                    Members([url |-> Get(r.data, "url"),
                                             session_id |-> Get(r.data, "id")]),
                                    200, NoHeaders), f1)
               [] route = "portal" ->
                    IF ~CanRead(r.data) THEN Raise(TypeError(r.data, "url"), f1)
                    ELSE Return(ResponseJson(Members([url |-> Get(r.data, "url")]),
                                             200, NoHeaders), f1)
               [] OTHER ->
                    IF ~CanRead(r.data) THEN Raise(TypeError(r.data, "data"), f1)
                    ELSE IF Get(r.data, "data").k # "array"
                    THEN Raise(TypeError(Get(r.data, "data"), "filter"), f1)
                    ELSE Return(ResponseJson(
                                    [prices |-> FormatPrices(Get(r.data, "data").a)],
                                    200, NoHeaders), f1)

(***************************************************************************)
(* The fetch handler of the payment worker.                                *)
(***************************************************************************)
\* if (request.method === 'OPTIONS')
IsPreflight(req) == req.method = "OPTIONS"

\* a guard that tests for an unset key only and lets an empty one through
UnconfiguredUnsetOnly(e) == ~e.STRIPE_SECRET_KEY.def

\* if (!env.STRIPE_SECRET_KEY)
Unconfigured(e) == ~Truthy(e.STRIPE_SECRET_KEY)

\* the two short-circuits in the other order: the guard answers preflights
FetchEntryGuardFirst(req, e) ==
    IF Unconfigured(e) THEN "unconfigured"
    ELSE IF IsPreflight(req) THEN "preflight"
    ELSE "route"

\* the order of the two short-circuits before routing: the preflight answer,
\* then the configuration guard
FetchEntry(req, e) ==
    IF IsPreflight(req) THEN "preflight"
    ELSE IF Unconfigured(e) THEN "unconfigured"
    ELSE "route"

\* the if / else-if chain over url.pathname and request.method
MatchRoute(method, pathname) ==
    IF pathname = "/health" THEN "health"
    ELSE IF method = "POST" /\ pathname = "/checkout" THEN "checkout"
    ELSE IF method = "POST" /\ pathname = "/portal" THEN "portal"
    ELSE IF method = "POST" /\ pathname = "/webhook" THEN "webhook"
    ELSE IF method = "GET" /\ pathname = "/prices" THEN "prices"
    ELSE "notfound"

RouteList == <<"/health", "/checkout", "/portal", "/webhook", "/prices">>

\* the body of the branch taken
RunHandler(route, req, e, clock, f) ==
    CASE route = "health" ->
            Return(ResponseJson([status |-> <<"ok">>, worker |-> <<"stripe-checkout">>,
                                 time |-> clock], 200, NoHeaders), f)
      [] route = "checkout" -> handleCheckout(req, f)
      [] route = "portal"   -> handlePortal(req, f)
      [] route = "webhook"  -> handleWebhook(req, e, clock, f)
      [] route = "prices"   -> handlePrices(f)
      [] OTHER ->
            Return(ResponseJson([error |-> <<"Not found">>, routes |-> RouteList],
                                404, NoHeaders), f)

\* for (const [k, v] of Object.entries(cors)) headers.set(k, v)
AddCors(resp, cors) == [resp EXCEPT !.headers = cors @@ resp.headers]

\* a dispatcher without the catch block: the Error of a handler escapes and
\* no response is made
SettleUncaught(route, h, cors) ==
    IF h.ret = "throw" THEN NoResponse
    ELSE IF route = "webhook" THEN h.resp
    ELSE AddCors(h.resp, cors)

\* the response fetch returns once the handler has returned or thrown: the
\* webhook branch returns its response as it is, the catch block turns an
\* Error into a 500, and everything but the webhook's return gets the CORS
\* headers
Settle(route, h, cors) ==
    IF h.ret = "throw"
    THEN AddCors(ResponseJson([error |-> h.err], 500, NoHeaders), cors)
    ELSE IF route = "webhook" THEN h.resp
    ELSE AddCors(h.resp, cors)

UnconfiguredMessage ==
    <<"Stripe not configured. Set STRIPE_SECRET_KEY in worker environment.">>

(***************************************************************************)
(* Deployments and requests.                                               *)
(***************************************************************************)
\* the secret the payment processor signs notifications with, and one it
\* does not
SigningSecret == <<"whsec_live">>

OtherSecret == <<"whsec_other">>

\* the time the processor signed at, as it appears in the header
SignedAt == <<"1", "0", "0", "0">>

Envs ==
    [STRIPE_SECRET_KEY     : {Undefined, Some(<<>>), Some(<<"sk_live">>)},
     STRIPE_WEBHOOK_SECRET : {Undefined, Some(<<>>), Some(SigningSecret)},
     ALLOWED_ORIGIN        : {Undefined, Some(<<"https://blackroad-brand-kit.pages.dev">>)}]

Methods == {"GET", "POST", "OPTIONS"}

Paths == {"/health", "/checkout", "/portal", "/webhook", "/prices", "/admin"}

Bodies ==
    {<<>>, BodyNotJson, BodyNull, BodyNumber, BodyEmptyObject, BodyInvoicePaid,
     BodyCheckoutDone, BodySubDeletedNoData, BodyInvoiceFailedNoObject,
     BodySubUpdated, BodyRefund, BodyPrice, BodyCustomer, BodyPriceNull,
     BodyPriceEmpty, BodyCustomerNull, BodyCustomerEmpty, BodyCustomerReturn,
     BodyPriceMeta, BodyPriceMetaNull, BodyPriceUrls}

\* the receipt times: within the tolerance of SignedAt, and past it
Clock == {1000, 1301}

\* k=v
KV(k, v) == k \o <<"=">> \o v

\* the header the processor builds for a body: t=<time>,v1=<signature>
SignedHeader(secret, time, body) ==
    KV(<<"t">>, time) \o <<",">>
        \o KV(<<"v1">>, HmacSha256Hex(secret, time \o <<".">> \o body))

\* the stripe-signature headers a request for the body can carry: none, the
\* processor's, one signed with another secret, one without a timestamp
SigHeaders(body) ==
    {Undefined,
     Some(SignedHeader(SigningSecret, SignedAt, body)),
     Some(SignedHeader(OtherSecret, SignedAt, body)),
     Some(KV(<<"v1">>, <<"deadbeef">>))}

Requests ==
    UNION {[method   : Methods,
            pathname : Paths,
            Origin   : {Undefined, Some(<<"https://app.example">>)},
            sig      : SigHeaders(b),
            body     : {b}] : b \in Bodies}

NoRequest ==
    [method |-> "", pathname |-> "", Origin |-> Undefined, sig |-> Undefined,
     body |-> <<>>]

(***************************************************************************)
(* The payment worker as a state machine.                                  *)
(***************************************************************************)
\* a request arrives
Receive ==
    /\ pc = "idle"
    /\ \E r \in Requests, t \in Clock :
          /\ request' = r
          /\ now' = t
    /\ pc' = "fetch"
    /\ response' = NoResponse
    /\ fx' = NoFx
    /\ pending' = NoCall
    /\ UNCHANGED <<env, vin, vout, gw, rt, pe>>

\* fetch(request, env) up to its return or to the await of stripeRequest
StripeFetch ==
    /\ pc = "fetch"
    /\ LET cors  == CorsOf(request, env)
           entry == FetchEntry(request, env)
       IN  IF entry = "preflight"
           THEN /\ response' = ResponseNull(204, cors)
                /\ pc' = "done"
                /\ UNCHANGED <<fx, pending>>
           ELSE IF entry = "unconfigured"
           THEN /\ response' = ResponseJson([error |-> UnconfiguredMessage], 503, cors)
                /\ fx' = [fx EXCEPT !.configChecked = TRUE]
                /\ pc' = "done"
                /\ UNCHANGED pending
           ELSE LET route == MatchRoute(request.method, request.pathname)
                    h     == RunHandler(route, request, env, now,
                                        [fx EXCEPT !.configChecked = TRUE,
                                                   !.route = route])
                IN  /\ fx' = h.fx
                    /\ IF h.ret = "await"
                       THEN /\ pc' = "await"
                            /\ pending' = CallOf(route, request, env)
                            /\ UNCHANGED response
                       ELSE /\ pc' = "done"
                            /\ response' = Settle(route, h, cors)
                            /\ UNCHANGED pending
    /\ UNCHANGED <<env, now, request, vin, vout, gw, rt, pe>>

\* the payment processor settles the outbound call and the handler finishes
StripeReply ==
    /\ pc = "await"
    /\ \E outcome \in StripeOutcomes :
          LET h == ResumeHandler(pending.call, outcome, fx)
          IN  /\ response' = Settle(pending.call, h, CorsOf(request, env))
              /\ fx' = h.fx
    /\ pc' = "done"
    /\ pending' = NoCall
    /\ UNCHANGED <<env, now, request, vin, vout, gw, rt, pe>>

\* the response goes out and the worker waits for the next request
Deliver ==
    /\ pc = "done"
    /\ pc' = "idle"
    /\ request' = NoRequest
    /\ response' = NoResponse
    /\ fx' = NoFx
    /\ UNCHANGED <<env, now, pending, vin, vout, gw, rt, pe>>

(***************************************************************************)
(* verifyStripeSignature on its own: one call on an input.                 *)
(***************************************************************************)
NoVerifyInput ==
    [payload |-> <<>>, sigHeader |-> Undefined, secret |-> <<>>, clock |-> 0]

NotCalled == [called |-> FALSE, r |-> Ok]

VerifyCall ==
    /\ ~vout.called
    /\ vout' = [called |-> TRUE,
                r |-> verifyStripeSignature(vin.payload, vin.sigHeader,
                                            vin.secret, vin.clock)]
    /\ UNCHANGED <<env, now, request, pc, response, fx, pending, vin, gw, rt, pe>>

\* the timestamps a header can carry, against the clock of the call: fresh, at
\* either edge of the window, past either edge, not a number, a number with
\* a tail, empty
VerifyClock == {1000}

Timestamps ==
    {<<"1", "0", "0", "0">>, <<"7", "0", "0">>, <<"6", "9", "9">>,
     <<"1", "3", "0", "0">>, <<"1", "3", "0", "1">>, <<"s", "o", "o", "n">>,
     <<"1", "0", "0", "0", ".", "a">>, <<>>}

Payloads == {<<"b">>, <<"a", ".", "b">>}

OtherPayload(p) == IF p = <<"b">> THEN <<"a", ".", "b">> ELSE <<"b">>

OtherTimestamp(t) ==
    IF t = <<"1", "0", "0", "0">> THEN <<"7", "0", "0">> ELSE <<"1", "0", "0", "0">>

\* the signature of secret, time and body
Sign(secret, time, body) == HmacSha256Hex(secret, time \o <<".">> \o body)

\* v1 values a header with timestamp t sent with payload p can carry: the
\* right one, and ones made with another secret, payload or timestamp
Candidates(t, p) ==
    {Sign(SigningSecret, t, p), Sign(OtherSecret, t, p),
     Sign(SigningSecret, t, OtherPayload(p)),
     Sign(SigningSecret, OtherTimestamp(t), p), <<"deadbeef">>}

\* the parts of such a header
PartPool(t, p) ==
    {KV(<<"t">>, t), <<"v1">>, KV(<<"v0">>, <<"deadbeef">>)}
        \cup {KV(<<"v1">>, c) : c \in Candidates(t, p)}

RECURSIVE Join(_, _)
Join(parts, sep) ==
    IF Len(parts) = 0 THEN <<>>
    ELSE IF Len(parts) = 1 THEN parts[1]
    ELSE parts[1] \o <<sep>> \o Join(Tail(parts), sep)

HeadersOf(t, p) ==
    {Undefined} \cup
    {Some(Join(ps, ",")) :
        ps \in UNION {[1..n -> PartPool(t, p)] : n \in 0..MaxParts}}

VerifyInputs ==
    UNION {[payload   : {p},
            sigHeader : HeadersOf(t, p),
            secret    : {SigningSecret},
            clock     : VerifyClock] : t \in Timestamps, p \in Payloads}

(***************************************************************************)
(* The AI gateway worker.                                                  *)
(***************************************************************************)
\* the backend origins, scheme first
BACKENDS ==
    [ollama |-> <<"http://", "127.0.0.1:11434">>,
     claude |-> <<"https://", "api.anthropic.com">>,
     openai |-> <<"https://", "api.", "openai", ".com">>]

\* the function-valued properties an object literal inherits from
\* Object.prototype
InheritedFunctions ==
    {"constructor", "toString", "valueOf", "hasOwnProperty", "isPrototypeOf",
     "propertyIsEnumerable", "toLocaleString"}

\* BACKENDS[provider]: an origin, an inherited function, or undefined
Backend(provider) ==
    IF Len(provider) = 1 /\ provider[1] \in DOMAIN BACKENDS
    THEN [k |-> "string", s |-> BACKENDS[provider[1]]]
    ELSE IF Len(provider) = 1 /\ provider[1] \in InheritedFunctions
    THEN [k |-> "function",
          s |-> <<"function ", provider[1], "() { [native code] }">>]
    ELSE JUndefined

\* url.searchParams.get('provider') || 'ollama'
ProviderOf(req) == OrElse(req.provider, Some(<<"ollama">>)).s

\* url.search
SearchOf(req) ==
    IF req.provider.def THEN <<"?provider=">> \o req.provider.s ELSE <<>>

\* a set that keeps an inbound header of the same name
HeadersSetIfAbsent(h, name, value) == h @@ (name :> value)

\* Headers.prototype.set
HeadersSet(h, name, value) == (name :> value) @@ h

\* an injection that does not look at the provider: the Anthropic key goes
\* out whenever it is configured
GatewayOutboundAnyProvider(req, e) ==
    LET provider == ProviderOf(req)
        headers ==
            IF Truthy(e.ANTHROPIC_API_KEY)
            THEN HeadersSet(req.headers, "x-api-key", e.ANTHROPIC_API_KEY.s)
            ELSE IF provider = <<"openai">> /\ Truthy(e.OPENAI_API_KEY)
            THEN HeadersSet(req.headers, "authorization",
                            <<"Bearer ">> \o e.OPENAI_API_KEY.s)
            ELSE req.headers
    IN  [url     |-> Backend(provider).s \o req.pathname \o SearchOf(req),
         method  |-> req.method,
         headers |-> headers,
         body    |-> IF req.method # "GET" THEN req.body ELSE Undefined]

\* the second argument of the outbound fetch and its target
GatewayOutbound(req, e) ==
    LET provider == ProviderOf(req)
        headers ==
            IF provider = <<"claude">> /\ Truthy(e.ANTHROPIC_API_KEY)
            THEN HeadersSet(req.headers, "x-api-key", e.ANTHROPIC_API_KEY.s)
            ELSE IF provider = <<"openai">> /\ Truthy(e.OPENAI_API_KEY)
            THEN HeadersSet(req.headers, "authorization",
                            <<"Bearer ">> \o e.OPENAI_API_KEY.s)
            ELSE req.headers
    IN  [url     |-> Backend(provider).s \o req.pathname \o SearchOf(req),
         method  |-> req.method,
         headers |-> headers,
         body    |-> IF req.method # "GET" THEN req.body ELSE Undefined]

NoOutbound ==
    [url |-> <<>>, method |-> "", headers |-> NoHeaders, body |-> Undefined]

\* what the platform's fetch throws before any transport: a target that is
\* not an absolute URL, a GET or HEAD with a body
FetchRefuses(call) ==
    IF Len(call.url) = 0 \/ call.url[1] \notin {"http://", "https://"}
    THEN Some(<<"Invalid URL: ">> \o call.url)
    ELSE IF call.method \in {"GET", "HEAD"} /\ call.body.def
    THEN Some(<<"Request with a GET or HEAD method cannot have a body.">>)
    ELSE Undefined

\* a handler without the catch block: the Error escapes and no response is
\* made
BadGatewayUncaught(msg, backend) == NoResponse

\* Response.json({ error: err.message, backend }, { status: 502 }); a
\* function-valued member is left out by JSON.stringify
BadGateway(msg, backend) ==
    ResponseJson(IF backend.k = "string"
                 THEN [error |-> msg, backend |-> backend.s]
                 ELSE [error |-> msg], 502, NoHeaders)

\* how the upstream call settles: an answer of the backend, passed through,
\* or a transport failure
UpstreamOutcomes == {"answer_200", "answer_401", "failure"}

TransportMessage == <<"connect ECONNREFUSED">>

UpstreamAnswer(outcome) ==
    IF outcome = "answer_200"
    THEN [status |-> 200, body |-> [text |-> <<"{\"model\":\"m\"}">>],
          headers |-> ("content-type" :> JsonType)]
    ELSE [status |-> 401, body |-> [text |-> <<"{\"error\":\"unauthorized\"}">>],
          headers |-> ("content-type" :> JsonType)]

GatewayEnvs ==
    [ANTHROPIC_API_KEY : {Undefined, Some(<<>>), Some(<<"sk-ant-1">>)},
     OPENAI_API_KEY    : {Undefined, Some(<<>>), Some(<<"sk-oai-1">>)}]

GatewayMethods == {"GET", "HEAD", "OPTIONS", "POST", "PUT", "PATCH", "DELETE"}

\* the provider query parameter: absent, empty, the configured names, a
\* differently-cased one, an unknown one, names of inherited properties
Providers ==
    {Undefined, Some(<<>>), Some(<<"ollama">>), Some(<<"claude">>),
     Some(<<"openai">>), Some(<<"Claude">>), Some(<<"sentinel">>),
     Some(<<"constructor">>), Some(<<"toString">>)}

\* inbound headers: without and with headers named like the credential ones
InboundHeaders ==
    {("content-type" :> JsonType),
     [n \in {"content-type", "x-api-key", "authorization", "x-request-id"} |->
        CASE n = "content-type"  -> JsonType
          [] n = "x-api-key"     -> <<"caller-key">>
          [] n = "authorization" -> <<"Bearer ", "caller-token">>
          [] n = "x-request-id"  -> <<"r-1">>]}

\* a GET or HEAD Request has a null body
GatewayRequests ==
    {r \in [method   : GatewayMethods,
            pathname : {<<"/v1/messages">>},
            provider : Providers,
            headers  : InboundHeaders,
            body     : {Undefined, Some(<<"{\"prompt\":\"hi\"}">>)}] :
        r.method \in {"GET", "HEAD"} => ~r.body.def}

\* the requests of the runs with several requests in flight
SiblingRequests ==
    {r \in GatewayRequests :
        /\ r.method \in {"GET", "POST"}
        /\ r.provider \in {Undefined, Some(<<"claude">>), Some(<<"sentinel">>)}
        /\ DOMAIN r.headers = {"content-type"}
        /\ r.method = "POST" => r.body.def}

NoGatewayRequest ==
    [method |-> "", pathname |-> <<>>, provider |-> Undefined,
     headers |-> NoHeaders, body |-> Undefined]

\* one invocation of the gateway's fetch handler: where it is, its request,
\* the outbound call it awaits, the calls of the global fetch that reached
\* the transport, how the last one settled, and its response
IdleSlot ==
    [pc |-> "idle", request |-> NoGatewayRequest, call |-> NoOutbound,
     calls |-> 0, outcome |-> "none", response |-> NoResponse]

NoGateway ==
    [env |-> [ANTHROPIC_API_KEY |-> Undefined, OPENAI_API_KEY |-> Undefined],
     slot |-> <<>>]

\* a request arrives at the gateway
GatewayReceive(i, pool) ==
    /\ gw.slot[i].pc = "idle"
    /\ \E r \in pool :
          gw' = [gw EXCEPT !.slot[i] = [IdleSlot EXCEPT !.pc = "fetch",
                                                       !.request = r]]
    /\ UNCHANGED <<env, now, request, pc, response, fx, pending, vin, vout, rt, pe>>

\* fetch(request, env) up to its return or to the await of the outbound fetch
GatewayFetch(i) ==
    /\ gw.slot[i].pc = "fetch"
    /\ LET s       == gw.slot[i]
           backend == Backend(ProviderOf(s.request))
           call    == GatewayOutbound(s.request, gw.env)
       IN  IF backend.k = "undefined"
           THEN gw' = [gw EXCEPT !.slot[i] =
                        [s EXCEPT !.pc = "done",
                                  !.response =
                                      ResponseJson([error |-> <<"Unknown provider: ">>
                                                       \o ProviderOf(s.request)],
                                                   400, NoHeaders)]]
           ELSE IF FetchRefuses(call).def
           THEN gw' = [gw EXCEPT !.slot[i] =
                        [s EXCEPT !.pc = "done",
                                  !.response = BadGateway(FetchRefuses(call).s,
                                                          backend)]]
           ELSE gw' = [gw EXCEPT !.slot[i] =
                        [s EXCEPT !.pc = "await", !.call = call, !.calls = @ + 1]]
    /\ UNCHANGED <<env, now, request, pc, response, fx, pending, vin, vout, rt, pe>>

\* the outbound call settles: the backend's answer is returned as it is, a
\* transport failure is caught and answered 502
GatewayReply(i) ==
    /\ gw.slot[i].pc = "await"
    /\ \E outcome \in UpstreamOutcomes :
          LET s == gw.slot[i]
          IN  gw' = [gw EXCEPT !.slot[i] =
                       [s EXCEPT !.pc = "done",
                                 !.outcome = outcome,
                                 !.response =
                                     IF outcome = "failure"
                                     THEN BadGateway(TransportMessage,
                                                     Backend(ProviderOf(s.request)))
                                     ELSE UpstreamAnswer(outcome)]]
    /\ UNCHANGED <<env, now, request, pc, response, fx, pending, vin, vout, rt, pe>>

\* the response goes out
GatewayDeliver(i) ==
    /\ gw.slot[i].pc = "done"
    /\ gw' = [gw EXCEPT !.slot[i] = IdleSlot]
    /\ UNCHANGED <<env, now, request, pc, response, fx, pending, vin, vout, rt, pe>>

(***************************************************************************)
(* The edge router worker.                                                 *)
(***************************************************************************)
\* a test for the text anywhere in the host, not at its start
Contains(t, prefix) ==
    \E k \in 0..(Len(t) - Len(prefix)) : SubSeq(t, k + 1, k + Len(prefix)) = prefix

\* String.prototype.startsWith
StartsWith(t, prefix) ==
    Len(t) >= Len(prefix) /\ SubSeq(t, 1, Len(prefix)) = prefix

StripePrefix == <<"stripe", ".">>

RouterName == <<"BlackRoad Edge Router">>

RoutePatterns == <<"stripe.*", "brand.*", "api.*">>

\* Response.json({ status, host, path, routes })
Descriptor(host, path) ==
    ResponseJson([status |-> RouterName, host |-> host, path |-> path,
                  routes |-> RoutePatterns], 200, NoHeaders)

\* the Host header: missing, empty, of the payment host, the bare prefix,
\* the name without its dot, another case, the prefix further in, others
Hosts ==
    {Undefined, Some(<<>>),
     Some(<<"stripe", ".", "blackroad", ".", "io">>),
     Some(<<"stripe", ".">>),
     Some(<<"stripe">>),
     Some(<<"stripe", "-", "test", ".", "blackroad", ".", "io">>),
     Some(<<"Stripe", ".", "blackroad", ".", "io">>),
     Some(<<"api", ".", "stripe", ".", "blackroad", ".", "io">>),
     Some(<<"brand", ".", "blackroad", ".", "io">>)}

RouterRequests ==
    {r \in [method   : {"GET", "POST"},
            host     : Hosts,
            pathname : {<<"/">>, <<"/health">>, <<"/checkout">>},
            body     : {Undefined, Some(BodyPrice)}] :
        r.method = "GET" => ~r.body.def}

NoRouterRequest ==
    [method |-> "", host |-> Undefined, pathname |-> <<>>, body |-> Undefined]

\* what the bound service can do with a request: answer, or fail
ServiceAnswers ==
    {ResponseJson([status |-> <<"ok">>], 200, NoHeaders),
     ResponseJson([error |-> <<"Not found">>], 404, NoHeaders),
     ResponseJson([error |-> UnconfiguredMessage], 503, NoHeaders)}

\* one invocation of the router's fetch handler: where it is, its request,
\* the requests handed to STRIPE_SERVICE.fetch, what the service answered,
\* and the router's response
IdleRouter ==
    [pc |-> "idle", request |-> NoRouterRequest, delegated |-> <<>>,
     answer |-> NoResponse, response |-> NoResponse]

\* a request arrives at the router
RouterReceive ==
    /\ rt.pc = "idle"
    /\ \E r \in RouterRequests :
          rt' = [IdleRouter EXCEPT !.pc = "fetch", !.request = r]
    /\ UNCHANGED <<env, now, request, pc, response, fx, pending, vin, vout, gw, pe>>

\* fetch(request, env): the host test, then the delegation or the descriptor
RouterFetch ==
    /\ rt.pc = "fetch"
    /\ LET host == OrElse(rt.request.host, Some(<<>>)).s
       IN  IF StartsWith(host, StripePrefix)
           THEN rt' = [rt EXCEPT !.pc = "await",
                                 !.delegated = Append(@, rt.request)]
           ELSE rt' = [rt EXCEPT !.pc = "done",
                                 !.response = Descriptor(host, rt.request.pathname)]
    /\ UNCHANGED <<env, now, request, pc, response, fx, pending, vin, vout, gw, pe>>

\* the promise of STRIPE_SERVICE.fetch, which the handler returns, resolves
ServiceReply ==
    /\ rt.pc = "await"
    /\ \E a \in ServiceAnswers :
          rt' = [rt EXCEPT !.pc = "done", !.answer = a, !.response = a]
    /\ UNCHANGED <<env, now, request, pc, response, fx, pending, vin, vout, gw, pe>>

\* the promise rejects: the router has no catch, its fetch rejects too
ServiceFail ==
    /\ rt.pc = "await"
    /\ rt' = [rt EXCEPT !.pc = "failed"]
    /\ UNCHANGED <<env, now, request, pc, response, fx, pending, vin, vout, gw, pe>>

\* the response, or the failure, goes out
RouterDeliver ==
    /\ rt.pc \in {"done", "failed"}
    /\ rt' = IdleRouter
    /\ UNCHANGED <<env, now, request, pc, response, fx, pending, vin, vout, gw, pe>>

(***************************************************************************)
(* encodeStripeParams.  Its input is a heap of objects: an object is the   *)
(* sequence of its entries <<key, value>>, a value is a string, null,      *)
(* undefined, a reference to an object of the heap, or an array of such    *)
(* values.  The object encoded is the first of the heap.                   *)
(***************************************************************************)
PStr(t) == [k |-> "str", s |-> t]

PNull == [k |-> "null"]

PUndefined == [k |-> "undefined"]

PRef(id) == [k |-> "ref", id |-> id]

PList(items) == [k |-> "list", items |-> items]

\* String(v) of an array element
StringOf(v) ==
    CASE v.k = "str" -> v.s
      [] v.k = "ref" -> <<"[", "object", " ", "Object", "]">>
      [] OTHER       -> <<v.k>>

\* encodeURIComponent: the reserved characters of the model's texts escaped
EncodeChar(c) ==
    CASE c = "&" -> "%26"
      [] c = "=" -> "%3D"
      [] c = "[" -> "%5B"
      [] c = "]" -> "%5D"
      [] c = " " -> "%20"
      [] OTHER   -> c

encodeURIComponent(t) == [i \in 1..Len(t) |-> EncodeChar(t[i])]

\* prefix ? `${prefix}[${key}]` : key
FullKey(prefix, key) ==
    IF prefix # <<>> THEN prefix \o <<"[">> \o key \o <<"]">> ELSE key

\* value.forEach((v, i) => parts.push(`${fullKey}[${i}]=${encodeURIComponent(v)}`))
ListParts(fullKey, items) ==
    [i \in 1..Len(items) |->
        fullKey \o <<"[">> \o ToDecimal(i - 1) \o <<"]", "=">>
            \o encodeURIComponent(StringOf(items[i]))]

StackOverflow == [ok |-> FALSE, err |-> "RangeError: Maximum call stack size exceeded"]

\* the function, frame by frame: depth is the number of its frames on the
\* stack, and a call that needs more than the stack holds throws
RECURSIVE encodeStripeParams(_, _, _, _)
RECURSIVE EncodeEntries(_, _, _, _, _, _)
EncodeEntries(heap, entries, n, prefix, depth, parts) ==
    IF n > Len(entries) THEN [ok |-> TRUE, parts |-> parts]
    ELSE LET key     == entries[n][1]
             value   == entries[n][2]
             fullKey == FullKey(prefix, key)
         IN  CASE value.k \in {"null", "undefined"} ->
                    EncodeEntries(heap, entries, n + 1, prefix, depth, parts)
               [] value.k = "ref" ->
                    LET sub == encodeStripeParams(heap, value.id, fullKey, depth + 1)
                    IN  IF ~sub.ok THEN sub
                        ELSE EncodeEntries(heap, entries, n + 1, prefix, depth,
                                 parts \o SelectSeq(split(sub.text, "&"),
                                                    LAMBDA part : part # <<>>))
               [] value.k = "list" ->
                    EncodeEntries(heap, entries, n + 1, prefix, depth,
                                  parts \o ListParts(fullKey, value.items))
               [] OTHER ->
                    EncodeEntries(heap, entries, n + 1, prefix, depth,
                                  Append(parts, fullKey \o <<"=">>
                                                  \o encodeURIComponent(value.s)))

encodeStripeParams(heap, id, prefix, depth) ==
    IF depth > MaxStack THEN StackOverflow
    ELSE LET r == EncodeEntries(heap, heap[id], 1, prefix, depth, <<>>)
         IN  IF ~r.ok THEN r ELSE [ok |-> TRUE, text |-> Join(r.parts, "&")]

\* the values of the first object: strings (one with a reserved character),
\* null, undefined, either object, arrays of up to two strings, nulls and
\* objects
ListItems == {PStr(<<"x">>), PNull, PRef(2)}

Lists == {PList(items) : items \in UNION {[1..n -> ListItems] : n \in 0..2}}

RootValues ==
    {PStr(<<"x">>), PStr(<<"y", "&", "z">>), PNull, PUndefined, PRef(1), PRef(2)}
        \cup Lists

RootObjects ==
    {<<>>}
        \cup {<<<<<<k>>, v>>>> : k \in {"a", "b"}, v \in RootValues}
        \cup {<<<<<<"a">>, v>>, <<<<"b">>, w>>>> : v \in RootValues, w \in RootValues}

\* the second object
InnerObjects ==
    {<<>>}
        \cup {<<<<<<"c">>, v>>>> :
                v \in {PStr(<<"x">>), PNull, PRef(1), PRef(2), PList(<<PStr(<<"x">>)>>)}}

Heaps == {<<root, inner>> : root \in RootObjects, inner \in InnerObjects}

NotEncoded == [ok |-> FALSE, err |-> "not called"]

EncoderQuiet == pe = [heap |-> <<<<>>, <<>>>>, called |-> FALSE, result |-> NotEncoded]

\* encodeStripeParams(obj)
EncodeCall ==
    /\ ~pe.called
    /\ pe' = [pe EXCEPT !.called = TRUE,
                        !.result = encodeStripeParams(pe.heap, 1, <<>>, 1)]
    /\ UNCHANGED <<env, now, request, pc, response, fx, pending, vin, vout, gw, rt>>

(***************************************************************************)
(* Specifications.                                                         *)
(***************************************************************************)
InitStripe ==
    /\ env \in Envs
    /\ now = 1000
    /\ request = NoRequest
    /\ pc = "idle"
    /\ response = NoResponse
    /\ fx = NoFx
    /\ pending = NoCall

\* the payment worker while the requests go to another service
StripeQuiet ==
    /\ env = [STRIPE_SECRET_KEY |-> Undefined, STRIPE_WEBHOOK_SECRET |-> Undefined,
              ALLOWED_ORIGIN |-> Undefined]
    /\ now = 1000
    /\ request = NoRequest
    /\ pc = "off"
    /\ response = NoResponse
    /\ fx = NoFx
    /\ pending = NoCall

VerifyQuiet ==
    /\ vin = NoVerifyInput
    /\ vout = NotCalled

GatewayQuiet == gw = NoGateway

\* the router while the requests go to another service
RouterQuiet == rt = [IdleRouter EXCEPT !.pc = "off"]

Init ==
    /\ InitStripe
    /\ VerifyQuiet
    /\ GatewayQuiet
    /\ RouterQuiet
    /\ EncoderQuiet

Next == Receive \/ StripeFetch \/ StripeReply \/ Deliver

Spec == Init /\ [][Next]_vars

InitVerify ==
    /\ StripeQuiet
    /\ vin \in VerifyInputs
    /\ vout = NotCalled
    /\ GatewayQuiet
    /\ RouterQuiet
    /\ EncoderQuiet

NextVerify == VerifyCall

SpecVerify == InitVerify /\ [][NextVerify]_vars

InitGateway ==
    /\ StripeQuiet
    /\ VerifyQuiet
    /\ gw \in {[env |-> e, slot |-> <<IdleSlot>>] : e \in GatewayEnvs}
    /\ RouterQuiet
    /\ EncoderQuiet

NextGateway ==
    \E i \in DOMAIN gw.slot :
        \/ GatewayReceive(i, GatewayRequests)
        \/ GatewayFetch(i)
        \/ GatewayReply(i)
        \/ GatewayDeliver(i)

SpecGateway == InitGateway /\ [][NextGateway]_vars

InitGatewayPair ==
    /\ StripeQuiet
    /\ VerifyQuiet
    /\ gw \in {[env |-> e, slot |-> [i \in 1..MaxInFlight |-> IdleSlot]] :
                  e \in GatewayEnvs}
    /\ RouterQuiet
    /\ EncoderQuiet

NextGatewayPair ==
    \E i \in DOMAIN gw.slot :
        \/ GatewayReceive(i, SiblingRequests)
        \/ GatewayFetch(i)
        \/ GatewayReply(i)
        \/ GatewayDeliver(i)

SpecGatewayPair == InitGatewayPair /\ [][NextGatewayPair]_vars

InitRouter ==
    /\ StripeQuiet
    /\ VerifyQuiet
    /\ GatewayQuiet
    /\ rt = IdleRouter
    /\ EncoderQuiet

NextRouter ==
    RouterReceive \/ RouterFetch \/ ServiceReply \/ ServiceFail \/ RouterDeliver

SpecRouter == InitRouter /\ [][NextRouter]_vars

InitEncode ==
    /\ StripeQuiet
    /\ VerifyQuiet
    /\ GatewayQuiet
    /\ RouterQuiet
    /\ pe \in {[heap |-> h, called |-> FALSE, result |-> NotEncoded] : h \in Heaps}

NextEncode == EncodeCall

SpecEncode == InitEncode /\ [][NextEncode]_vars

\* the three services of the configuration.  They share no state: each
\* behaviour follows the requests of one of them
InitServices == Init \/ InitGateway \/ InitRouter

NextServices == Next \/ NextGateway \/ NextRouter

SpecServices == InitServices /\ [][NextServices]_vars

(***************************************************************************)
(* Vocabulary of the properties.                                           *)
(***************************************************************************)
\* the values of all the parts of a header whose key is k, in header order
ValuesOf(header, k) ==
    LET sel == SelectSeq(split(header, ","), LAMBDA part : PartKey(part) = <<k>>)
    IN  [i \in 1..Len(sel) |-> PartValue(sel[i])]

\* a non-empty run of decimal digits
IsIntegerText(t) ==
    /\ Len(t) > 0
    /\ \A i \in 1..Len(t) : \E d \in 1..10 : DecDigits[d] = t[i]

\* |clock - t| <= 300 for the integer text t
InWindow(clock, t) ==
    LET n == parseInt(t).n
    IN  clock - n <= tolerance /\ n - clock <= tolerance

\* the header of the call has one timestamp, an integer inside the window
OneFreshTimestamp ==
    /\ vin.sigHeader.def
    /\ LET ts == ValuesOf(vin.sigHeader.s, "t")
       IN  /\ Len(ts) = 1
           /\ ts[1].def
           /\ IsIntegerText(ts[1].s)
           /\ InWindow(vin.clock, ts[1].s)

\* the signature the call should find in the header
Expected == Sign(vin.secret, ValuesOf(vin.sigHeader.s, "t")[1].s, vin.payload)

\* a request to the webhook route of a configured worker has been answered
WebhookAnswered ==
    /\ pc = "done"
    /\ request.method = "POST"
    /\ request.pathname = "/webhook"
    /\ ~Unconfigured(env)

Acknowledged ==
    /\ response.status = 200
    /\ response.body = [received |-> TRUE]

\* the response carries the JSON envelope {error: message}
ErrorEnvelope ==
    /\ "content-type" \in DOMAIN response.headers
    /\ response.headers["content-type"] = JsonType
    /\ "error" \in DOMAIN response.body

\* nothing of a handler has happened for the request
NoHandlerRan ==
    /\ ~fx.bodyRead
    /\ fx.verify = "none"
    /\ ~fx.parsed
    /\ fx.dispatched = "none"
    /\ fx.console = <<>>
    /\ fx.outbound = 0
    /\ pending = NoCall

RouteTable ==
    {<<"GET", "/health">>, <<"POST", "/checkout">>, <<"POST", "/portal">>,
     <<"POST", "/webhook">>, <<"GET", "/prices">>}

(***************************************************************************)
(* Properties.                                                             *)
(***************************************************************************)
\* C1: a POST /webhook that passed the STRIPE_SECRET_KEY guard is answered
\* 200 {received:true} only if the signature of the raw body verified
\* against the deployment's webhook secret and the body parsed; otherwise
\* the answer is 400, the body is not parsed, no event case runs and nothing
\* is acknowledged -- whatever STRIPE_WEBHOOK_SECRET is.
C1_AckOnlyIfVerified ==
    WebhookAnswered =>
        LET verified ==
                /\ Truthy(env.STRIPE_WEBHOOK_SECRET)
                /\ verifyStripeSignature(request.body, request.sig,
                                         env.STRIPE_WEBHOOK_SECRET.s, now).ok
        IN  ~(verified /\ JSONParse(request.body).ok) =>
                 /\ response.status = 400
                 /\ ~Acknowledged
                 /\ ~fx.parsed
                 /\ fx.dispatched = "none"

\* C2: a header with a fresh timestamp and two v1 values of which exactly
\* one, first or last, is the right signature verifies.
C2_RotationVerifies ==
    (vout.called /\ OneFreshTimestamp) =>
        LET v1 == ValuesOf(vin.sigHeader.s, "v1")
        IN  ( /\ Len(v1) = 2
              /\ v1[1].def /\ v1[2].def
              /\ Cardinality({i \in 1..2 : v1[i] = Some(Expected)}) = 1 )
            => vout.r.ok

\* C3: once the webhook body has been verified and parsed, the answer is 200
\* {received:true}, whatever was parsed and whatever the event case does.
C3_ParsedIsAcknowledged ==
    (pc = "done" /\ fx.verify = "ok" /\ fx.parsed) => Acknowledged

\* C4: a call that verifies had a header whose timestamp is an integer t
\* with |now - t| <= 300; no other timestamp verifies, even with the right
\* signature for it.
C4_VerifiedIsFresh ==
    (vout.called /\ vout.r.ok) =>
        LET ts == ValuesOf(vin.sigHeader.s, "t")
        IN  /\ Len(ts) >= 1
            /\ ts[Len(ts)].def
            /\ IsIntegerText(ts[Len(ts)].s)
            /\ InWindow(vin.clock, ts[Len(ts)].s)

\* C5: for a header with one fresh integer timestamp and a single v1 value
\* s, the call verifies if and only if s is the hex HMAC of
\* "{timestamp}.{rawBody}" under the secret, and fails with a signature
\* mismatch otherwise; so a signature made with another secret, another
\* (integer) timestamp or another body is a mismatch.
C5_ExactVerification ==
    (vout.called /\ OneFreshTimestamp) =>
        LET v1 == ValuesOf(vin.sigHeader.s, "v1")
            t  == ValuesOf(vin.sigHeader.s, "t")[1].s
        IN  Len(v1) = 1 =>
              /\ vout.r.ok <=> v1[1] = Some(Expected)
              /\ ~vout.r.ok => vout.r.err = <<"Signature mismatch">>
              /\ \A k \in {SigningSecret, OtherSecret}, u \in Timestamps,
                    p \in Payloads :
                    ( /\ IsIntegerText(u)
                      /\ v1[1] = Some(Sign(k, u, p))
                      /\ <<k, u, p>> # <<vin.secret, t, vin.payload>> )
                    => vout.r = Throw(<<"Signature mismatch">>)

\* C5, its case reached: a correctly signed single-v1 header has verified
C5_Witness ==
    /\ vout.called
    /\ OneFreshTimestamp
    /\ ValuesOf(vin.sigHeader.s, "v1") = <<Some(Expected)>>
    /\ vout.r.ok

\* C6: every response to a POST /webhook carries none of the computed CORS
\* headers, and every response to any other request carries all of them.
C6_CorsExemptionIsWebhook ==
    pc = "done" =>
        LET cors == CorsOf(request, env)
        IN  IF request.method = "POST" /\ request.pathname = "/webhook"
            THEN DOMAIN response.headers \cap DOMAIN cors = {}
            ELSE \A n \in DOMAIN cors :
                    n \in DOMAIN response.headers /\ response.headers[n] = cors[n]

\* C7: an OPTIONS request, on any path and with or without STRIPE_SECRET_KEY,
\* is answered 204 with an empty body and the CORS headers, and nothing else
\* happens for it: no configuration check, route match, handler, body read
\* or outbound call.
C7_PreflightShortCircuit ==
    (request.method = "OPTIONS" /\ pc # "fetch") =>
        /\ pc = "done"
        /\ response.status = 204
        /\ response.body = [empty |-> TRUE]
        /\ response.headers = CorsOf(request, env)
        /\ ~fx.configChecked
        /\ fx.route = "none"
        /\ NoHandlerRan

\* C7, its case reached: a preflight to /webhook of an unconfigured worker
C7_Witness ==
    /\ pc = "done"
    /\ request.method = "OPTIONS"
    /\ request.pathname = "/webhook"
    /\ Unconfigured(env)
    /\ response.status = 204

\* C8: with STRIPE_SECRET_KEY unset or empty, every request that is not a
\* preflight is answered 503 with an {error} message, on every path and
\* method, and no route is matched, no handler runs, no outbound call is
\* made.
C8_UnconfiguredGuard ==
    ( /\ request.method \in Methods \ {"OPTIONS"}
      /\ ~Truthy(env.STRIPE_SECRET_KEY)
      /\ pc # "fetch" ) =>
        /\ pc = "done"
        /\ response.status = 503
        /\ ErrorEnvelope
        /\ response.body.error # <<>>
        /\ fx.route = "none"
        /\ NoHandlerRan

\* C8, its case reached: POST /webhook with an empty STRIPE_SECRET_KEY
C8_Witness ==
    /\ pc = "done"
    /\ request.method = "POST"
    /\ request.pathname = "/webhook"
    /\ env.STRIPE_SECRET_KEY = Some(<<>>)
    /\ response.status = 503

\* C9: on a configured worker, a request that is not a preflight and whose
\* (method, path) is not in the route table is answered 404 with the list of
\* routes, and no handler runs.
C9_RouteTableOnMethodAndPath ==
    ( /\ pc # "fetch"
      /\ request.method \in Methods \ {"OPTIONS"}
      /\ ~Unconfigured(env)
      /\ <<request.method, request.pathname>> \notin RouteTable ) =>
        /\ pc = "done"
        /\ response.status = 404
        /\ "routes" \in DOMAIN response.body
        /\ fx.route = "notfound"
        /\ NoHandlerRan

\* C10: every response with a 4xx or 5xx status, on every route, has a JSON
\* body of the form {error: message}.
C10_UniformErrorEnvelope ==
    (pc = "done" /\ response.status >= 400) => ErrorEnvelope

\* the outcomes of the outbound call that are failures: a non-success answer,
\* a rejected fetch, an answer that is not JSON
FailedOutcomes ==
    {"error_message", "error_status", "error_null", "network_error", "invalid_json"}

HasCors ==
    \A n \in DOMAIN CorsOf(request, env) :
        /\ n \in DOMAIN response.headers
        /\ response.headers[n] = CorsOf(request, env)[n]

\* C11: a request to /checkout, /portal or /prices whose outbound call fails
\* (non-success answer, rejected call, unreadable answer) or whose handler
\* throws ends with one response: status 500, body {error: the failure's
\* message}, CORS headers attached; no Error leaves fetch.
C11_FailuresBecome500 ==
    ( /\ pc \notin {"fetch", "await"}
      /\ request.pathname \in {"/checkout", "/portal", "/prices"}
      /\ (fx.outcome \in FailedOutcomes \/ fx.thrown.def) ) =>
        /\ pc = "done"
        /\ response.status = 500
        /\ fx.thrown.def
        /\ response.body = [error |-> fx.thrown.s]
        /\ fx.outcome = "error_message" => response.body.error = ProcessorMessage
        /\ fx.outcome = "network_error" => response.body.error = NetworkMessage
        /\ response.headers["content-type"] = JsonType
        /\ HasCors

\* C11, its case reached: the processor answers GET /prices with a
\* non-success status and no message
C11_Witness ==
    /\ pc = "done"
    /\ request.pathname = "/prices"
    /\ fx.outcome = "error_status"
    /\ response.status = 500
    /\ response.body = [error |-> <<"Stripe error: ", "4", "0", "2">>]

\* the field is absent, null or empty
Missing(v) == v.k \in {"undefined", "null"} \/ (v.k = "string" /\ v.s = <<>>)

\* the body is JSON whose members can be read: any value but null
ReadableJsonBody ==
    /\ JSONParse(request.body).ok
    /\ CanRead(JSONParse(request.body).v)

FixedKeys ==
    {<<"mode">>, <<"line_items[0][price]">>, <<"line_items[0][quantity]">>,
     <<"success_url">>, <<"cancel_url">>, <<"automatic_tax[enabled]">>,
     <<"subscription_data[metadata][source]">>}

\* C13: the parameters POST /checkout sends to the processor hold
\* mode=subscription, line_items[0][price]=price_id, quantity 1, automatic
\* tax enabled; for a body of price_id alone success_url and cancel_url are
\* {origin}/success?session_id={CHECKOUT_SESSION_ID} and {origin}/pricing of
\* the request's declared Origin; metadata entries are sent under
\* metadata[k] only and replace none of the fixed parameters.
C13_CheckoutRequestShape ==
    (pc = "await" /\ pending.call = "checkout") =>
        LET body == JSONParse(request.body).v
            sent == pending.params
            meta == Get(body, "metadata")
            names == IF meta.k = "object" THEN DOMAIN meta.f ELSE {}
            has(k, v) == k \in DOMAIN sent /\ sent[k] = v
            or(name, fallback) ==
                IF Missing(Get(body, name)) THEN fallback ELSE Get(body, name).s
        IN  /\ pending.method = "POST"
            /\ has(<<"mode">>, <<"subscription">>)
            /\ has(<<"line_items[0][price]">>, Get(body, "price_id").s)
            /\ has(<<"line_items[0][quantity]">>, <<"1">>)
            /\ has(<<"automatic_tax[enabled]">>, <<"true">>)
            /\ Truthy(request.Origin) =>
                  /\ has(<<"success_url">>,
                         or("success_url", request.Origin.s
                              \o <<"/success?session_id={CHECKOUT_SESSION_ID}">>))
                  /\ has(<<"cancel_url">>,
                         or("cancel_url", request.Origin.s \o <<"/pricing">>))
            /\ \A n \in names : has(<<"metadata[", n, "]">>, meta.f[n].s)
            /\ \A k \in DOMAIN sent :
                  \/ k \in FixedKeys \cup {<<"customer_email">>}
                  \/ \E n \in names : k = <<"metadata[", n, "]">>

\* C13, its case reached: a body of price_id alone from a declared Origin
C13_Witness ==
    /\ pc = "await"
    /\ pending.call = "checkout"
    /\ request.body = BodyPrice
    /\ Truthy(request.Origin)
    /\ pending.params[<<"success_url">>] =
          <<"https://app.example", "/success?session_id={CHECKOUT_SESSION_ID}">>

\* C13, the metadata case reached: a metadata entry named like a fixed
\* parameter
C13_MetadataReached ==
    /\ pc = "await"
    /\ request.body = BodyPriceMeta
    /\ <<"metadata[", "mode", "]">> \in DOMAIN pending.params

KnownProviders == {<<"ollama">>, <<"claude">>, <<"openai">>}

\* C14: a gateway request whose provider parameter is present and is not
\* exactly ollama, claude or openai is answered 400 with an error that
\* echoes the value, and no outbound call is made.
C14_UnknownProviderRejected ==
    \A i \in DOMAIN gw.slot :
        LET s == gw.slot[i]
        IN  ( /\ s.pc \notin {"idle", "fetch"}
              /\ s.request.provider.def
              /\ s.request.provider.s \notin KnownProviders ) =>
                /\ s.pc = "done"
                /\ s.response.status = 400
                /\ s.response.body =
                      [error |-> <<"Unknown provider: ">> \o s.request.provider.s]
                /\ s.calls = 0
                /\ s.call = NoOutbound

\* C15: the outbound headers of a request to claude (openai) with a
\* non-empty ANTHROPIC_API_KEY (OPENAI_API_KEY) are the inbound headers with
\* x-api-key (authorization) set from the key, an inbound header of that
\* name overwritten; in every other case they are the inbound headers.
C15_CredentialInjectionFrame ==
    \A i \in DOMAIN gw.slot :
        LET s       == gw.slot[i]
            inbound == s.request.headers
            out     == s.call.headers
            p       == ProviderOf(s.request)
            only(name, value) ==
                /\ DOMAIN out = DOMAIN inbound \cup {name}
                /\ out[name] = value
                /\ \A n \in DOMAIN inbound \ {name} : out[n] = inbound[n]
        IN  s.call # NoOutbound =>
                IF p = <<"claude">> /\ Truthy(gw.env.ANTHROPIC_API_KEY)
                THEN only("x-api-key", gw.env.ANTHROPIC_API_KEY.s)
                ELSE IF p = <<"openai">> /\ Truthy(gw.env.OPENAI_API_KEY)
                THEN only("authorization", <<"Bearer ">> \o gw.env.OPENAI_API_KEY.s)
                ELSE out = inbound

\* C15, its case reached: a request to claude that brings its own x-api-key
C15_Witness ==
    \E i \in DOMAIN gw.slot :
        /\ gw.slot[i].pc = "await"
        /\ gw.slot[i].request.provider = Some(<<"claude">>)
        /\ gw.slot[i].request.headers["content-type"] = JsonType
        /\ "x-api-key" \in DOMAIN gw.slot[i].request.headers
        /\ gw.slot[i].request.headers["x-api-key"] = <<"caller-key">>
        /\ gw.slot[i].call.headers["x-api-key"] = <<"sk-ant-1">>

\* the text holds the provider's name
Names(text, provider) == \E k \in 1..Len(text) : text[k] = provider[1]

TransportFailed(s) ==
    /\ s.pc = "done"
    /\ s.outcome = "failure"
    /\ ProviderOf(s.request) \in KnownProviders

\* a transport failure is answered 502 with the provider name and the
\* failure message
BadGatewayNamesProvider ==
    \A i \in DOMAIN gw.slot :
        LET s == gw.slot[i]
        IN  TransportFailed(s) =>
                /\ s.response.status = 502
                /\ "error" \in DOMAIN s.response.body
                /\ s.response.body.error = TransportMessage
                /\ \E m \in DOMAIN s.response.body :
                      Names(s.response.body[m], ProviderOf(s.request))

\* the step in which one request's outbound call fails ends that request
\* with a response and leaves every other request in flight as it was
FailureLeavesSiblings ==
    \A i \in DOMAIN gw.slot :
        (gw.slot[i].pc = "await" /\ gw'.slot[i].outcome = "failure") =>
            /\ gw'.slot[i].pc = "done"
            /\ gw'.slot[i].response.status # 0
            /\ \A j \in DOMAIN gw.slot \ {i} : gw'.slot[j] = gw.slot[j]

\* C16: a gateway request to a known provider whose outbound call fails at
\* transport level is answered 502 with a body that includes the provider
\* name and the failure message; the handler returns, and the other requests
\* in flight are unaffected.
C16_TransportFailure502 ==
    /\ []BadGatewayNamesProvider
    /\ [][FailureLeavesSiblings]_vars

\* a transport failure is answered 502 with the failure message and the
\* origin of the provider's backend
BadGatewayNamesBackend ==
    \A i \in DOMAIN gw.slot :
        LET s == gw.slot[i]
        IN  TransportFailed(s) =>
                /\ s.response.status = 502
                /\ s.response.body =
                      [error   |-> TransportMessage,
                       backend |-> BACKENDS[ProviderOf(s.request)[1]]]

\* C16, amended: a gateway request to a known provider whose outbound call
\* fails at transport level is answered 502 with a body that holds the
\* failure message and the backend origin of the provider; the handler
\* returns, and the other requests in flight are unaffected.
C16_TransportFailureBackend ==
    /\ []BadGatewayNamesBackend
    /\ [][FailureLeavesSiblings]_vars

\* C16, its case reached: the call to claude has failed while another
\* request is in flight
C16_Witness ==
    \E i, j \in DOMAIN gw.slot :
        /\ i # j
        /\ TransportFailed(gw.slot[i])
        /\ gw.slot[i].request.provider = Some(<<"claude">>)
        /\ gw.slot[i].response.status = 502
        /\ gw.slot[j].pc = "await"

\* C20: the outbound request has the inbound method; for GET, HEAD and
\* OPTIONS it is built without a body, for POST, PUT and PATCH with the
\* inbound body.
C20_BodyForwarding ==
    \A i \in DOMAIN gw.slot :
        LET s == gw.slot[i]
        IN  s.call # NoOutbound =>
                /\ s.call.method = s.request.method
                /\ s.request.method \in {"GET", "HEAD", "OPTIONS"} => ~s.call.body.def
                /\ s.request.method \in {"POST", "PUT", "PATCH"} =>
                      s.call.body = s.request.body

\* C17: a request whose Host header begins with "stripe." is handed as it is
\* to STRIPE_SERVICE exactly once and the service's response is returned;
\* for every other host, a missing one included, nothing is delegated and
\* the response is 200 with the router name, the observed host, the path and
\* the route patterns.
C17_HostRouting ==
    rt.pc \notin {"idle", "fetch"} =>
        LET h == rt.request.host
        IN  IF h.def /\ Len(h.s) >= 2 /\ h.s[1] = "stripe" /\ h.s[2] = "."
            THEN /\ rt.delegated = <<rt.request>>
                 /\ rt.pc = "done" => (rt.answer # NoResponse /\ rt.response = rt.answer)
            ELSE /\ rt.delegated = <<>>
                 /\ rt.pc = "done"
                 /\ rt.response.status = 200
                 /\ rt.response.body =
                       [status |-> RouterName,
                        host   |-> IF h.def THEN h.s ELSE <<>>,
                        path   |-> rt.request.pathname,
                        routes |-> RoutePatterns]

\* C17, its case reached: a POST for the payment host has been delegated and
\* answered
C17_Witness ==
    /\ rt.pc = "done"
    /\ rt.request.method = "POST"
    /\ rt.request.host = Some(<<"stripe", ".", "blackroad", ".", "io">>)
    /\ rt.delegated = <<rt.request>>
    /\ rt.response.status = 404

\* the objects a value refers to, an array's elements included
RefsOfValue(v) ==
    CASE v.k = "ref"  -> {v.id}
      [] v.k = "list" -> {v.items[i].id : i \in {j \in 1..Len(v.items) :
                                                    v.items[j].k = "ref"}}
      [] OTHER        -> {}

RefsOf(heap, id) == UNION {RefsOfValue(heap[id][n][2]) : n \in 1..Len(heap[id])}

RECURSIVE ReachFrom(_, _)
ReachFrom(heap, ids) ==
    LET more == ids \cup UNION {RefsOf(heap, id) : id \in ids}
    IN  IF more = ids THEN ids ELSE ReachFrom(heap, more)

\* the objects reachable from an object in one step or more
Reach(heap, id) == ReachFrom(heap, RefsOf(heap, id))

\* the input holds an object reachable from itself
Cyclic(heap) == \E id \in {1} \cup Reach(heap, 1) : id \in Reach(heap, id)

\* the leaves of an acyclic input that are neither null nor absent, each
\* with its path: the keys and array indices from the root down
RECURSIVE LeavesOf(_, _, _)
LeavesOfValue(heap, v, path) ==
    CASE v.k = "str"  -> {<<path, v.s>>}
      [] v.k = "ref"  -> LeavesOf(heap, v.id, path)
      [] v.k = "list" ->
            UNION {LET item == v.items[i]
                       at   == Append(path, ToDecimal(i - 1))
                   IN  CASE item.k = "str" -> {<<at, item.s>>}
                         [] item.k = "ref" -> LeavesOf(heap, item.id, at)
                         [] OTHER          -> {}
                   : i \in 1..Len(v.items)}
      [] OTHER        -> {}

LeavesOf(heap, id, path) ==
    UNION {LeavesOfValue(heap, heap[id][n][2], Append(path, heap[id][n][1])) :
            n \in 1..Len(heap[id])}

\* the inverse of the percent-encoding
DecodeChar(c) ==
    CASE c = "%26" -> "&"
      [] c = "%3D" -> "="
      [] c = "%5B" -> "["
      [] c = "%5D" -> "]"
      [] c = "%20" -> " "
      [] OTHER     -> c

PercentDecode(t) == [i \in 1..Len(t) |-> DecodeChar(t[i])]

\* the segments of the bracket groups [s1][s2]... of a key; a text that is
\* not a run of groups gives the segment "?"
RECURSIVE BracketGroups(_)
BracketGroups(t) ==
    IF t = <<>> THEN <<>>
    ELSE LET close == {j \in 2..Len(t) : t[j] = "]"}
         IN  IF t[1] # "[" \/ close = {} THEN <<<<"?">>>>
             ELSE LET j == CHOOSE j \in close : \A m \in close : j <= m
                  IN  <<SubSeq(t, 2, j - 1)>> \o BracketGroups(SubSeq(t, j + 1, Len(t)))

\* a wire key as a path: the name, then the bracketed segments
PathOfKey(key) ==
    LET open == {j \in 1..Len(key) : key[j] = "["}
        cut  == IF open = {} THEN Len(key) + 1
                ELSE CHOOSE j \in open : \A m \in open : j <= m
    IN  <<SubSeq(key, 1, cut - 1)>> \o BracketGroups(SubSeq(key, cut, Len(key)))

\* the pairs of a flattened output
WirePairs(text) == SelectSeq(split(text, "&"), LAMBDA part : part # <<>>)

\* re-nesting: each pair's key as a path, its value decoded; a structure is
\* given by its leaves and their paths
Renest(text) ==
    {<<PathOfKey(PartKey(WirePairs(text)[i])),
       PercentDecode(OrElse(PartValue(WirePairs(text)[i]), Some(<<>>)).s)>> :
        i \in 1..Len(WirePairs(text))}

\* C18: for an acyclic parameter tree the flattened output has one pair per
\* leaf that is neither null nor absent and no other pair, each key is the
\* bracketed path of its leaf, and re-nesting the output gives the leaves of
\* the original at their paths.
C18_RoundTripNullOmission ==
    (pe.called /\ ~Cyclic(pe.heap)) =>
        /\ pe.result.ok
        /\ Renest(pe.result.text) = LeavesOf(pe.heap, 1, <<>>)
        /\ Len(WirePairs(pe.result.text)) = Cardinality(LeavesOf(pe.heap, 1, <<>>))

\* C19: for an input that holds a cycle the call ends, and ends with a
\* CyclicInput error.
C19_CycleDetected ==
    (pe.called /\ Cyclic(pe.heap)) =>
        /\ ~pe.result.ok
        /\ pe.result.err = "CyclicInput"

\* the inbound request of the payment worker took a path that calls nothing:
\* the preflight answer, the configuration guard, /health, no route, a 400
NoCallPath ==
    \/ IsPreflight(request)
    \/ Unconfigured(env)
    \/ MatchRoute(request.method, request.pathname) \in {"health", "notfound"}
    \/ response.status = 400

\* C21: along the handling of one inbound request, each service issues at
\* most one outbound call: the payment worker to the processor, the gateway
\* to a backend, the router to the bound service.  Once that call has
\* settled, whatever its outcome, exactly one call was made.  The preflight,
\* unconfigured, 404, validation-error and /health paths of the payment
\* worker, the unknown-provider answer of the gateway and the descriptor
\* answer of the router issue none.
C21_NoInternalRetries ==
    /\ fx.outbound <= 1
    /\ (pending # NoCall) => (pc = "await" /\ fx.outbound = 1)
    /\ (fx.outcome # "none") => (pc = "done" /\ fx.outbound = 1 /\ pending = NoCall)
    /\ (pc = "done" /\ NoCallPath) => (fx.outbound = 0 /\ fx.outcome = "none")
    /\ \A i \in DOMAIN gw.slot :
          LET s == gw.slot[i]
          IN  /\ s.calls <= 1
              /\ (s.pc = "await") => (s.calls = 1)
              /\ (s.outcome # "none") => (s.pc = "done" /\ s.calls = 1)
              /\ ( /\ s.pc = "done"
                   /\ Backend(ProviderOf(s.request)).k = "undefined" ) =>
                     (s.calls = 0 /\ s.outcome = "none")
    /\ Len(rt.delegated) <= 1
    /\ (rt.pc \in {"await", "failed"}) => (Len(rt.delegated) = 1)
    /\ (rt.pc = "done" /\ rt.answer # NoResponse) => (Len(rt.delegated) = 1)
    /\ (rt.pc = "done" /\ rt.answer = NoResponse) => (rt.delegated = <<>>)

\* C21, its case reached: POST /checkout whose one call to the processor
\* fails in transport and is answered 500
C21_Witness ==
    /\ pc = "done"
    /\ request.method = "POST"
    /\ request.pathname = "/checkout"
    /\ fx.outcome = "network_error"
    /\ fx.outbound = 1
    /\ response.status = 500

\* the credentials of the deployment: the binding, the provider it is for
Credentials ==
    {<<"ANTHROPIC_API_KEY", "claude">>, <<"OPENAI_API_KEY", "openai">>}

\* the text holds the credential
Carries(text, key) == \E k \in 1..Len(text) : text[k] = key[1]

\* the outbound call holds the credential: in a header, its target or its body
CallCarries(call, key) ==
    \/ \E n \in DOMAIN call.headers : Carries(call.headers[n], key)
    \/ Carries(call.url, key)
    \/ call.body.def /\ Carries(call.body.s, key)

\* a textual member of the response body holds the credential
ResponseCarries(resp, key) ==
    \E f \in DOMAIN resp.body \cap {"error", "backend", "text"} :
        Carries(resp.body[f], key)

\* C22: for every gateway request and every deployment, an outbound call
\* that holds the value of ANTHROPIC_API_KEY (OPENAI_API_KEY) has the claude
\* (openai) backend as the origin of its target; a call for any other
\* provider, ollama in particular, is the call the same request gets from a
\* deployment without that credential; no response body of the gateway
\* holds either value.
C22_CredentialConfinement ==
    \A i \in DOMAIN gw.slot : \A c \in Credentials :
        LET s   == gw.slot[i]
            key == gw.env[c[1]]
        IN  Truthy(key) =>
              /\ CallCarries(s.call, key.s) =>
                    /\ ProviderOf(s.request) = <<c[2]>>
                    /\ s.call.url = BACKENDS[c[2]] \o s.request.pathname
                                        \o SearchOf(s.request)
              /\ ( /\ s.call # NoOutbound
                   /\ ProviderOf(s.request) # <<c[2]>> ) =>
                     s.call = GatewayOutbound(s.request,
                                              [gw.env EXCEPT ![c[1]] = Undefined])
              /\ ~ResponseCarries(s.response, key.s)

\* C22, its case reached: with both credentials configured, a request to
\* openai went out with the OpenAI key only and failed in transport; the 502
\* names the openai origin
C22_Witness ==
    \E i \in DOMAIN gw.slot :
        /\ gw.slot[i].pc = "done"
        /\ gw.env.ANTHROPIC_API_KEY = Some(<<"sk-ant-1">>)
        /\ gw.env.OPENAI_API_KEY = Some(<<"sk-oai-1">>)
        /\ gw.slot[i].request.provider = Some(<<"openai">>)
        /\ gw.slot[i].call.headers["authorization"] = <<"Bearer ", "sk-oai-1">>
        /\ "x-api-key" \notin DOMAIN gw.slot[i].call.headers
        /\ gw.slot[i].outcome = "failure"
        /\ gw.slot[i].response.status = 502
        /\ gw.slot[i].response.body.backend = BACKENDS.openai

====
